---- MODULE Spec2Model ----
(***************************************************************************)
(* Model of product_dedup_improved.py: the text/identifier normalizers,    *)
(* the blocking key, the similarity test, the merger, the per-block        *)
(* clustering loop and the chunked dedupe driver with its worker pool.     *)
(*                                                                         *)
(* Python values are tagged records:                                       *)
(*   None            [k |-> "none"]                                        *)
(*   float('nan')    [k |-> "nan"]                                         *)
(*   int/float       [k |-> "num",     n |-> Int]                          *)
(*   str             [k |-> "str",     s |-> sequence of characters]       *)
(*   list            [k |-> "list",    e |-> sequence of values]           *)
(*   tuple           [k |-> "tuple",   e |-> sequence of values]           *)
(*   numpy.ndarray   [k |-> "ndarray", e |-> sequence of values]           *)
(*   bool            [k |-> "bool",    b |-> BOOLEAN]                        *)
(* A str is a sequence of one-character strings.  A record (dict) is a     *)
(* function from the field names it holds to values.                       *)
(***************************************************************************)
EXTENDS Integers, Sequences, FiniteSets, Bags, TLC

VARIABLES
    fn, args, ret,      \* the last call of a pure function, its inputs and its result
    jobs,               \* the process_block calls of the pool: arguments, locals, position
    thresh, workers,    \* the configuration of the run
    chunks,             \* dfs: the input, as the sequence of chunks read
    chunkNo,            \* idx of the chunk loop
    result,             \* result of dedupe
    origin,             \* per entry of result: the identifier group it merges (history)
    dpc,                \* the position of dedupe
    out_df,             \* the frame built from result after the chunk loop
    written             \* what the writer received

fnVars == <<fn, args, ret>>
dedupeVars == <<chunks, chunkNo, result, origin, dpc, out_df, written>>
vars == <<fn, args, ret, jobs, thresh, workers, chunks, chunkNo, result, origin, dpc,
          out_df, written>>

----------------------------------------------------------------------------
(* Python values *)

None == [k |-> "none"]
NaN == [k |-> "nan"]
Num(n) == [k |-> "num", n |-> n]
Str(s) == [k |-> "str", s |-> s]
List(e) == [k |-> "list", e |-> e]
Tuple(e) == [k |-> "tuple", e |-> e]
NdArray(e) == [k |-> "ndarray", e |-> e]
Bool(b) == [k |-> "bool", b |-> b]

IsStr(v) == v.k = "str"
IsSeq(v) == v.k \in {"list", "tuple", "ndarray"}

\* bool(v): None, 0, "" and empty sequences are false; NaN is a non-zero float
Truthy(v) ==
    CASE v.k = "none" -> FALSE
      [] v.k = "nan" -> TRUE
      [] v.k = "num" -> v.n # 0
      [] v.k = "str" -> v.s # <<>>
      [] OTHER -> v.e # <<>>

\* pd.isna on a scalar
IsNa(v) == v.k \in {"none", "nan"}

\* dict.get(f) and dict.get(f, default)
Get(rec, f) == IF f \in DOMAIN rec THEN rec[f] ELSE None
GetOr(rec, f, default) == IF f \in DOMAIN rec THEN rec[f] ELSE default

\* a or b
Or(a, b) == IF Truthy(a) THEN a ELSE b

----------------------------------------------------------------------------
(* Sequence helpers *)

RECURSIVE SeqConcat(_)
SeqConcat(ss) == IF ss = <<>> THEN <<>> ELSE Head(ss) \o SeqConcat(Tail(ss))

Range(s) == {s[i] : i \in DOMAIN s}

RECURSIVE Rep(_, _)
Rep(c, n) == IF n = 0 THEN <<>> ELSE <<c>> \o Rep(c, n - 1)

Prefix(s, n) == IF Len(s) <= n THEN s ELSE SubSeq(s, 1, n)

----------------------------------------------------------------------------
(* clean_text *)

\* the two str.translate tables (the backquote of the second, which a TLA+
\* string cannot hold, is left out of the model's alphabet)
Deleted1 == {"\n", "\r", "\t"}
Deleted2 == {"!", "\"", "#", "$", "%", "&", "'", "(", ")", "*", "+", ",", ".",
             "/", ":", ";", "<", "=", ">", "?", "@", "[", "\\", "]", "^",
             "{", "|", "}", "~"}

\* str.lower on one character of the model's alphabet
Lower(c) ==
    CASE c = "A" -> "a"
      [] c = "B" -> "b"
      [] c = "C" -> "c"
      [] OTHER -> c

\* str.split(): the maximal runs of non-blank characters
RECURSIVE SplitFrom(_, _, _)
SplitFrom(s, cur, acc) ==
    IF s = <<>> THEN (IF cur = <<>> THEN acc ELSE Append(acc, cur))
    ELSE IF Head(s) = " "
         THEN SplitFrom(Tail(s), <<>>, IF cur = <<>> THEN acc ELSE Append(acc, cur))
         ELSE SplitFrom(Tail(s), Append(cur, Head(s)), acc)

Split(s) == SplitFrom(s, <<>>, <<>>)

\* " ".join(tokens)
RECURSIVE Join(_)
Join(toks) ==
    IF toks = <<>> THEN <<>>
    ELSE IF Len(toks) = 1 THEN toks[1]
    ELSE toks[1] \o <<" ">> \o Join(Tail(toks))

clean_text(text) ==
    IF ~IsStr(text) THEN <<>>
    ELSE LET low == [i \in DOMAIN text.s |-> Lower(text.s[i])]
             NotDel1(c) == c \notin Deleted1
             NotDel2(c) == c \notin Deleted2
         IN Join(Split(SelectSeq(SelectSeq(low, NotDel1), NotDel2)))

----------------------------------------------------------------------------
(* normalize_id *)

normalize_id(val) ==
    IF val.k = "ndarray"
    THEN (IF Len(val.e) = 1 THEN val.e[1] ELSE Tuple(val.e))
    ELSE IF val.k = "list" THEN Tuple(val.e)
    ELSE IF IsNa(val) THEN None
    ELSE val

----------------------------------------------------------------------------
(* blocking_key *)

TitlePrefixLen == 10

blocking_key(record) ==
    LET brand == clean_text(GetOr(record, "brand", Str(<<>>)))
        title == clean_text(Or(GetOr(record, "product_title", Str(<<>>)),
                               GetOr(record, "product_name", Str(<<>>))))
    IN brand \o <<"|">> \o Prefix(title, TitlePrefixLen)

----------------------------------------------------------------------------
(* rapidfuzz.fuzz.token_set_ratio, as called by are_similar.  A ratio is the *)
(* fraction 100 * n / d, kept exact as the pair [n, d].                      *)

\* the characters of the model in code-point order
CharOrder == <<" ", "-", "0", "1", "2", "3", "4", "5", "6", "7", "8", "9",
               "A", "B", "C", "[", "]", "a", "b", "c", "d", "x", "y", "z">>
Code(c) == CHOOSE i \in DOMAIN CharOrder : CharOrder[i] = c

\* a < b for two str, as Python compares them
RECURSIVE StrLess(_, _)
StrLess(a, b) ==
    IF b = <<>> THEN FALSE
    ELSE IF a = <<>> THEN TRUE
    ELSE IF Head(a) = Head(b) THEN StrLess(Tail(a), Tail(b))
    ELSE Code(Head(a)) < Code(Head(b))

\* sorted(set of str)
RECURSIVE Sorted(_)
Sorted(S) ==
    IF S = {} THEN <<>>
    ELSE LET m == CHOOSE x \in S : \A y \in S \ {x} : StrLess(x, y)
         IN <<m>> \o Sorted(S \ {m})

\* length of the longest common subsequence
RECURSIVE Lcs(_, _)
Lcs(a, b) ==
    IF a = <<>> \/ b = <<>> THEN 0
    ELSE IF Head(a) = Head(b) THEN 1 + Lcs(Tail(a), Tail(b))
    ELSE LET x == Lcs(Tail(a), b)
             y == Lcs(a, Tail(b))
         IN IF x >= y THEN x ELSE y

indel_distance(a, b) == Len(a) + Len(b) - 2 * Lcs(a, b)

\* 100 - 100 * dist / lensum, and 100 for two empty strings
norm_distance(dist, lensum) ==
    IF lensum > 0 THEN [n |-> lensum - dist, d |-> lensum] ELSE [n |-> 1, d |-> 1]

RatioMax(r1, r2) == IF r1.n * r2.d >= r2.n * r1.d THEN r1 ELSE r2
RatioGE(r, t) == 100 * r.n >= t * r.d

token_set_ratio(s1, s2) ==
    IF s1 = <<>> \/ s2 = <<>> THEN [n |-> 0, d |-> 1]
    ELSE
    LET tokens_a == Range(Split(s1))
        tokens_b == Range(Split(s2))
        intersect == tokens_a \cap tokens_b
        diff_ab == tokens_a \ tokens_b
        diff_ba == tokens_b \ tokens_a
        diff_ab_joined == Join(Sorted(diff_ab))
        diff_ba_joined == Join(Sorted(diff_ba))
        ab_len == Len(diff_ab_joined)
        ba_len == Len(diff_ba_joined)
        sect_len == Len(Join(Sorted(intersect)))
        sep == IF sect_len # 0 THEN 1 ELSE 0
        sect_ab_len == sect_len + sep + ab_len
        sect_ba_len == sect_len + sep + ba_len
        res == norm_distance(indel_distance(diff_ab_joined, diff_ba_joined),
                             sect_ab_len + sect_ba_len)
        sect_ab_ratio == norm_distance(sep + ab_len, sect_len + sect_ab_len)
        sect_ba_ratio == norm_distance(sep + ba_len, sect_len + sect_ba_len)
    IN IF tokens_a = {} \/ tokens_b = {} THEN [n |-> 0, d |-> 1]
       ELSE IF intersect # {} /\ (diff_ab = {} \/ diff_ba = {}) THEN [n |-> 1, d |-> 1]
       ELSE IF sect_len = 0 THEN res
       ELSE RatioMax(res, RatioMax(sect_ab_ratio, sect_ba_ratio))

----------------------------------------------------------------------------
(* are_similar *)

NAME_FIELDS == <<"product_title", "product_name", "name", "title">>

\* a == b on two values; a NaN equals nothing
PyEq(a, b) == a.k # "nan" /\ a = b

\* the for loop from position i: the first field with a truthy value on
\* both sides decides (break), and falling off the end returns False
RECURSIVE NameLoop(_, _, _, _)
NameLoop(a, b, t, i) ==
    IF i > Len(NAME_FIELDS) THEN FALSE
    ELSE LET n1 == Get(a, NAME_FIELDS[i])
             n2 == Get(b, NAME_FIELDS[i])
         IN IF Truthy(n1) /\ Truthy(n2)
            THEN RatioGE(token_set_ratio(clean_text(n1), clean_text(n2)), t)
            ELSE NameLoop(a, b, t, i + 1)

are_similar(a, b, t) ==
    LET id1 == Get(a, "product_identifier")
        id2 == Get(b, "product_identifier")
    IN IF Truthy(id1) /\ Truthy(id2) /\ PyEq(id1, id2) THEN TRUE
       ELSE NameLoop(a, b, t, 1)

----------------------------------------------------------------------------
(* merge_records *)

\* str(n) of an integer
RECURSIVE Digits(_)
Digits(n) ==
    LET d == <<"0", "1", "2", "3", "4", "5", "6", "7", "8", "9">>[(n % 10) + 1]
    IN IF n < 10 THEN <<d>> ELSE Digits(n \div 10) \o <<d>>

NumStr(n) == IF n < 0 THEN <<"-">> \o Digits(0 - n) ELSE Digits(n)

\* str(x) of a scalar
StrOf(x) ==
    CASE x.k = "str" -> x.s
      [] x.k = "num" -> NumStr(x.n)
      [] x.k = "none" -> <<"N", "o", "n", "e">>
      [] x.k = "nan" -> <<"n", "a", "n">>

\* hashlib.md5(str(x).encode()).hexdigest(): a digest per string, taken to be
\* free of collisions
Fingerprint(x) == StrOf(x)

\* the values the loop passes over: None, and a float that is NaN
Skipped(v) == v.k = "none" \/ v.k = "nan"

\* Items with the else branch lost: a scalar contributes nothing
ItemsOfSequencesOnly(v) == IF IsSeq(v) THEN v.e ELSE <<>>

\* the elements a value contributes to a list field
Items(v) == IF IsSeq(v) THEN v.e ELSE <<v>>

\* the deduplication pass: the first element of each fingerprint, in order
RECURSIVE Uniq(_, _, _)
Uniq(xs, seen, uniq) ==
    IF xs = <<>> THEN uniq
    ELSE LET h == Fingerprint(Head(xs))
         IN IF h \in seen THEN Uniq(Tail(xs), seen, uniq)
            ELSE Uniq(Tail(xs), seen \cup {h}, Append(uniq, Head(xs)))

Absent == [k |-> "absent"]

\* the exception of comparing a number with a str
TypeError == [k |-> "TypeError"]

\* v > (old or float('-inf')) for a number v: a falsy old gives way to minus
\* infinity, and a non-empty str on the right raises
Greater(v, old) ==
    CASE ~Truthy(old) -> TRUE
      [] old.k = "num" -> v.n > old.n

\* one assignment of the else branch: the value stored for a non-list field
\* after record value v, given the value stored before (Absent: k not in merged)
Store(old, v) ==
    IF old = TypeError THEN TypeError
    ELSE IF Skipped(v) THEN old
    ELSE IF old = Absent THEN v
    ELSE IF IsStr(v) /\ Len(v.s) > Len(StrOf(old)) THEN v
    ELSE IF ~IsStr(v) /\ v.k = "num"
         THEN (IF Truthy(old) /\ old.k # "num" THEN TypeError
               ELSE IF Greater(v, old) THEN v ELSE old)
    ELSE old

RECURSIVE ScalarFold(_, _, _)
ScalarFold(records, k, old) ==
    IF records = <<>> THEN old
    ELSE ScalarFold(Tail(records), k,
                    IF k \in DOMAIN Head(records) THEN Store(old, Head(records)[k])
                    ELSE old)

\* merged[k] of a list field before deduplication (Absent: k not in merged)
RECURSIVE ListFold(_, _, _)
ListFold(records, k, old) ==
    IF records = <<>> THEN old
    ELSE LET rec == Head(records)
             new == IF k \in DOMAIN rec /\ ~Skipped(rec[k])
                    THEN List((IF old = Absent THEN <<>> ELSE old.e) \o Items(rec[k]))
                    ELSE old
         IN ListFold(Tail(records), k, new)

list_fields(records) ==
    {k \in UNION {DOMAIN records[i] : i \in DOMAIN records} :
        \E i \in DOMAIN records : k \in DOMAIN records[i] /\ IsSeq(records[i][k])}

merge_records(records) ==
    LET keys == UNION {DOMAIN records[i] : i \in DOMAIN records}
        lf == list_fields(records)
        val(k) == IF k \in lf
                  THEN LET m == ListFold(records, k, Absent)
                       IN IF m = Absent THEN Absent ELSE List(Uniq(m.e, {}, <<>>))
                  ELSE ScalarFold(records, k, Absent)
        kept == {k \in keys : val(k) # Absent}
    IN IF \E k \in keys : val(k) = TypeError THEN TypeError
       ELSE [k \in kept |-> val(k)]

----------------------------------------------------------------------------
(* Input universes of the pure functions *)

MaxMerge == 3

\* a dict literal from which the Absent entries are left out
Strip(r) == [f \in {g \in DOMAIN r : r[g] # Absent} |-> r[f]]

SeqsUpTo(S, n) == UNION {[1..m -> S] : m \in 0..n}

T_abc == Str(<<"a", "b", " ", "c">>)
T_ABC == Str(<<"A", "B", ",", "\t", " ", " ", "C", "!">>)
T_abd == Str(<<"a", "b", " ", "d">>)
T_xy == Str(<<"x", "y">>)
T_empty == Str(<<>>)
T_long1 == Str(Rep("a", 10) \o <<"b">>)
T_long2 == Str(Rep("a", 10) \o <<"c">>)
T_Long1 == Str(<<"A", "!">> \o Rep("a", 9) \o <<"b">>)

IdInputs ==
    {None, NaN, Num(42), Num(7), Str(<<"a">>),
     List(<<>>), List(<<Num(7)>>), List(<<Num(7), Num(9)>>), List(<<Num(9), Num(7)>>),
     NdArray(<<>>), NdArray(<<Num(7)>>), NdArray(<<Num(7), Num(9)>>)}

MergeRecs ==
    {[score |-> Num(3)], [score |-> Num(1)], [score |-> Num(0)], [score |-> Num(-5)],
     [score |-> None, desc |-> Str(<<"a">>)],
     [score |-> NaN, tags |-> List(<<Num(1), Num(2)>>)],
     [tags |-> List(<<Num(2), Num(3)>>)],
     [tags |-> NdArray(<<Num(2), Num(2)>>), desc |-> Str(<<"a", "b">>)],
     [tags |-> Num(1)], [tags |-> Str(<<"1">>)],
     [tags |-> None, desc |-> Str(<<"b">>)],
     [tags |-> Tuple(<<Str(<<"x">>), Num(3)>>)]}

SimRecs ==
    {Strip([product_identifier |-> i, product_title |-> t, product_name |-> n, title |-> u]) :
        i \in {Absent, Num(5)},
        t \in {Absent, None, NaN, T_abc, T_ABC, T_abd, T_xy},
        n \in {Absent, T_empty, T_abc, T_xy},
        u \in {Absent, T_abc}}

SimThresholds == {75, 90}

BlockRecs ==
    {Strip([brand |-> b, product_title |-> t, product_name |-> n]) :
        b \in {Absent, None, T_xy, T_abc, T_ABC},
        t \in {Absent, None, NaN, T_empty, T_long1, T_long2, T_Long1, T_abc},
        n \in {Absent, T_long1, T_abc}}

----------------------------------------------------------------------------
(* The pure functions, each behaviour applying one of them once to inputs of *)
(* the universes                                                             *)


CallNormalizeId ==
    /\ fn = "init"
    /\ \E v \in IdInputs :
        /\ fn' = "normalize_id" /\ args' = <<v>> /\ ret' = normalize_id(v)
        /\ UNCHANGED <<jobs, thresh, workers, dedupeVars>>

CallMergeRecords ==
    /\ fn = "init"
    /\ \E rs \in SeqsUpTo(MergeRecs, MaxMerge) :
        /\ fn' = "merge_records" /\ args' = <<rs>> /\ ret' = merge_records(rs)
        /\ UNCHANGED <<jobs, thresh, workers, dedupeVars>>

CallAreSimilar ==
    /\ fn = "init"
    /\ \E a \in SimRecs, b \in SimRecs, t \in SimThresholds :
        /\ fn' = "are_similar" /\ args' = <<a, b, t>> /\ ret' = Bool(are_similar(a, b, t))
        /\ UNCHANGED <<jobs, thresh, workers, dedupeVars>>

CallBlockingKey ==
    /\ fn = "init"
    /\ \E a \in BlockRecs, b \in BlockRecs :
        /\ fn' = "blocking_key" /\ args' = <<a, b>>
        /\ ret' = Tuple(<<Str(blocking_key(a)), Str(blocking_key(b))>>)
        /\ UNCHANGED <<jobs, thresh, workers, dedupeVars>>

----------------------------------------------------------------------------
(* process_block: as a function, and step by step as a job of the pool *)

Last(s) == s[Len(s)]
Front(s) == SubSeq(s, 1, Len(s) - 1)

\* the clusters list built by the while loop from a given rem
RECURSIVE ClustersFrom(_, _)
ClustersFrom(r, t) ==
    IF r = <<>> THEN <<>>
    ELSE LET sd == Last(r)
             rest == Front(r)
             Sim(item) == are_similar(sd, item, t)
             NotSim(item) == ~are_similar(sd, item, t)
         IN <<(<<sd>> \o SelectSeq(rest, Sim))>> \o ClustersFrom(SelectSeq(rest, NotSim), t)

process_block(b, t) ==
    LET cs == ClustersFrom(b, t)
    IN [i \in DOMAIN cs |-> merge_records(cs[i])]

\* a job submitted to the pool and not yet started
NewJob(b) ==
    [block |-> b, pc |-> "pending", rem |-> <<>>, seed |-> None, cluster |-> <<>>,
     new_rem |-> <<>>, idx |-> 0, clusters |-> <<>>, out |-> <<>>]

Running == {j \in DOMAIN jobs : jobs[j].pc \notin {"pending", "done"}}

\* a free worker takes the next job of the queue: clusters = [], rem = block.copy()
StartJob(j) ==
    /\ jobs[j].pc = "pending"
    /\ \A i \in 1..(j - 1) : jobs[i].pc # "pending"
    /\ Cardinality(Running) < workers
    /\ jobs' = [jobs EXCEPT ![j].pc = "while", ![j].rem = jobs[j].block,
                            ![j].clusters = <<>>]
    /\ UNCHANGED <<fnVars, thresh, workers, dedupeVars>>

\* while rem: seed = rem.pop(); cluster = [seed]; new_rem = []
PopSeed(j) ==
    /\ jobs[j].pc = "while"
    /\ jobs[j].rem # <<>>
    /\ jobs' = [jobs EXCEPT ![j].seed = Last(jobs[j].rem),
                            ![j].rem = Front(jobs[j].rem),
                            ![j].cluster = <<Last(jobs[j].rem)>>,
                            ![j].new_rem = <<>>,
                            ![j].idx = 1,
                            ![j].pc = "for"]
    /\ UNCHANGED <<fnVars, thresh, workers, dedupeVars>>

\* ScanItem with the else lost: a similar item joins the cluster and stays in
\* new_rem as well
ScanItemKeepsSimilar(j) ==
    /\ jobs[j].pc = "for"
    /\ jobs[j].idx <= Len(jobs[j].rem)
    /\ LET item == jobs[j].rem[jobs[j].idx]
       IN IF are_similar(jobs[j].seed, item, thresh)
          THEN jobs' = [jobs EXCEPT ![j].cluster = Append(@, item),
                                    ![j].new_rem = Append(@, item), ![j].idx = @ + 1]
          ELSE jobs' = [jobs EXCEPT ![j].new_rem = Append(@, item), ![j].idx = @ + 1]
    /\ UNCHANGED <<fnVars, thresh, workers, dedupeVars>>

\* one iteration of for item in rem
ScanItem(j) ==
    /\ jobs[j].pc = "for"
    /\ jobs[j].idx <= Len(jobs[j].rem)
    /\ LET item == jobs[j].rem[jobs[j].idx]
       IN IF are_similar(jobs[j].seed, item, thresh)
          THEN jobs' = [jobs EXCEPT ![j].cluster = Append(@, item), ![j].idx = @ + 1]
          ELSE jobs' = [jobs EXCEPT ![j].new_rem = Append(@, item), ![j].idx = @ + 1]
    /\ UNCHANGED <<fnVars, thresh, workers, dedupeVars>>

\* after the for loop: rem = new_rem; clusters.append(cluster)
CloseCluster(j) ==
    /\ jobs[j].pc = "for"
    /\ jobs[j].idx > Len(jobs[j].rem)
    /\ jobs' = [jobs EXCEPT ![j].rem = jobs[j].new_rem,
                            ![j].clusters = Append(@, jobs[j].cluster),
                            ![j].pc = "while"]
    /\ UNCHANGED <<fnVars, thresh, workers, dedupeVars>>

\* return [merge_records(c) for c in clusters]
ReturnBlock(j) ==
    /\ jobs[j].pc = "while"
    /\ jobs[j].rem = <<>>
    /\ jobs' = [jobs EXCEPT ![j].out = [i \in DOMAIN jobs[j].clusters |->
                                            merge_records(jobs[j].clusters[i])],
                            ![j].pc = "done"]
    /\ UNCHANGED <<fnVars, thresh, workers, dedupeVars>>

----------------------------------------------------------------------------
(* dedupe *)

\* pd.read_parquet(in_path, chunksize=n): frames of n rows each; without a
\* chunksize, the one frame of all rows
RECURSIVE Chunked(_, _)
Chunked(rows, n) ==
    IF n = 0 THEN <<rows>>
    ELSE IF rows = <<>> THEN <<>>
    ELSE IF Len(rows) <= n THEN <<rows>>
    ELSE <<SubSeq(rows, 1, n)>> \o Chunked(SubSeq(rows, n + 1, Len(rows)), n)

\* df["product_identifier"] = df["product_identifier"].apply(normalize_id)
Normalized(df) ==
    [i \in DOMAIN df |->
        [df[i] EXCEPT !["product_identifier"] = normalize_id(df[i]["product_identifier"])]]

\* the distinct values of a sequence, each at its first position
RECURSIVE Distinct(_, _)
Distinct(xs, seen) ==
    IF xs = <<>> THEN <<>>
    ELSE IF Head(xs) \in seen THEN Distinct(Tail(xs), seen)
    ELSE <<Head(xs)>> \o Distinct(Tail(xs), seen \cup {Head(xs)})

\* the positions of the rows of has_id and of no_id
HasId(df) == {i \in DOMAIN df : ~IsNa(df[i]["product_identifier"])}
NoId(df) == {i \in DOMAIN df : IsNa(df[i]["product_identifier"])}

\* the rows of df at the positions of P, in row order
RECURSIVE RowsAt(_, _, _)
RowsAt(df, P, i) ==
    IF i > Len(df) THEN <<>>
    ELSE (IF i \in P THEN <<df[i]>> ELSE <<>>) \o RowsAt(df, P, i + 1)

\* has_id.groupby("product_identifier"): the keys (the order of the groups is
\* the order pandas sorts them into; here the order of first appearance, and
\* nothing below depends on it) and the row positions of each group
GroupKeys(df) ==
    LET ids == [i \in DOMAIN df |-> df[i]["product_identifier"]]
        NotNa(v) == ~IsNa(v)
    IN Distinct(SelectSeq(ids, NotNa), {})

GroupPositions(df, key) == {i \in HasId(df) : df[i]["product_identifier"] = key}

\* 1. exact merge: the records appended to result for one chunk
ExactMerged(df) ==
    LET keys == GroupKeys(df)
    IN [g \in DOMAIN keys |-> merge_records(RowsAt(df, GroupPositions(df, keys[g]), 1))]

\* 2. buckets.values(): the blocks, in the order their keys were first seen
Buckets(df) ==
    LET no_id == RowsAt(df, NoId(df), 1)
        bkeys == Distinct([i \in DOMAIN no_id |-> blocking_key(no_id[i])], {})
        InBlock(key) == LET Same(rec) == blocking_key(rec) = key
                        IN SelectSeq(no_id, Same)
    IN [b \in DOMAIN bkeys |-> InBlock(bkeys[b])]

\* lines 155-167 for the chunk at chunkNo, up to the submission of the blocks
ProcessChunk ==
    /\ dpc = "loop"
    /\ chunkNo <= Len(chunks)
    /\ LET df == Normalized(chunks[chunkNo])
           keys == GroupKeys(df)
           bs == Buckets(df)
       IN /\ result' = result \o ExactMerged(df)
          /\ origin' = origin \o
                 [g \in DOMAIN keys |->
                     [id |-> keys[g],
                      rows |-> {<<chunkNo, i>> : i \in GroupPositions(df, keys[g])}]]
          /\ jobs' = [b \in DOMAIN bs |-> NewJob(bs[b])]
    /\ dpc' = "parallel"
    /\ UNCHANGED <<fnVars, thresh, workers, chunks, chunkNo, out_df, written>>

\* a pool that hands back its results as soon as one job has finished
SomeDone == \E j \in DOMAIN jobs : jobs[j].pc = "done"

\* every job of the pool has returned
AllDone == \A j \in DOMAIN jobs : jobs[j].pc = "done"

\* Parallel(...) returns the list of every job's result once all have
\* finished; for sub in merged: result.extend(sub); then the next chunk
Collect ==
    /\ dpc = "parallel"
    /\ AllDone
    /\ LET merged == [j \in DOMAIN jobs |-> jobs[j].out]
           subs == SeqConcat(merged)
       IN /\ result' = result \o subs
          /\ origin' = origin \o [i \in DOMAIN subs |-> [id |-> None, rows |-> {}]]
    /\ jobs' = <<>>
    /\ chunkNo' = chunkNo + 1
    /\ dpc' = "loop"
    /\ UNCHANGED <<fnVars, thresh, workers, chunks, out_df, written>>

\* json.dumps of a list of scalars
JsonOf(x) ==
    CASE x.k = "num" -> NumStr(x.n)
      [] x.k = "str" -> <<"\"">> \o x.s \o <<"\"">>

RECURSIVE JsonItems(_)
JsonItems(e) ==
    IF e = <<>> THEN <<>>
    ELSE IF Len(e) = 1 THEN JsonOf(e[1])
    ELSE JsonOf(e[1]) \o <<",", " ">> \o JsonItems(Tail(e))

json_dumps(x) == Str(<<"[">> \o JsonItems(x.e) \o <<"]">>)

\* the lambda applied to the product_identifier column
SerializeId(x) ==
    IF x.k = "none" THEN None
    ELSE IF x.k \in {"list", "tuple"} THEN json_dumps(x)
    ELSE x

\* pd.DataFrame(result): one row per dict over the union of their keys, a
\* missing cell being NaN
Columns(res) == UNION {DOMAIN res[i] : i \in DOMAIN res}
DataFrame(res) ==
    [i \in DOMAIN res |->
        [c \in Columns(res) |-> IF c \in DOMAIN res[i] THEN res[i][c] ELSE NaN]]

\* lines 171-176 after the last chunk: out_df["product_identifier"] raises
\* KeyError when the frame has no such column
Serialize ==
    /\ dpc = "loop"
    /\ chunkNo > Len(chunks)
    /\ LET frame == DataFrame(result)
       IN IF "product_identifier" \in Columns(result)
          THEN /\ out_df' = [i \in DOMAIN frame |->
                               [frame[i] EXCEPT !["product_identifier"] = SerializeId(@)]]
               /\ dpc' = "write"
          ELSE /\ out_df' = frame
               /\ dpc' = "KeyError"
    /\ UNCHANGED <<fnVars, jobs, thresh, workers, chunks, chunkNo, result, origin, written>>

\* out_df.to_parquet(out_path)
WriteOut ==
    /\ dpc = "write"
    /\ written' = out_df
    /\ dpc' = "done"
    /\ UNCHANGED <<fnVars, jobs, thresh, workers, chunks, chunkNo, result, origin, out_df>>

\* result of a run whose blocks are processed one after the other
RECURSIVE SequentialResult(_, _)
SequentialResult(cs, t) ==
    IF cs = <<>> THEN <<>>
    ELSE LET df == Normalized(Head(cs))
             bs == Buckets(df)
         IN ExactMerged(df)
            \o SeqConcat([b \in DOMAIN bs |-> process_block(bs[b], t)])
            \o SequentialResult(Tail(cs), t)

----------------------------------------------------------------------------
(* Specifications *)

MaxBlock == 4
MaxRows == 3
MaxWorkers == 2

\* records of one block: without identifier or with one, and with names that
\* are similar to a common third but not to each other
T_ab == Str(<<"a", "b">>)
ClusterRecs ==
    {[name |-> T_abc], [name |-> T_abd], [name |-> T_ab], [name |-> T_xy],
     [product_identifier |-> Num(5), name |-> T_xy],
     [product_identifier |-> Num(5), name |-> T_abc]}

BlockThresholds == {70, 90}

\* rows of the input table: every row holds every column
Row(i, b, n) == [product_identifier |-> i, brand |-> b, product_title |-> None, name |-> n]
Rows ==
    {Row(NdArray(<<Num(7), Num(7)>>), T_xy, T_abc),
     Row(NdArray(<<Num(7)>>), T_xy, T_ab),
     Row(Num(7), T_abc, T_abd),
     Row(None, T_xy, T_abc),
     Row(None, T_xy, T_abd),
     Row(None, T_xy, T_ab),
     Row(None, T_abc, T_xy)}

ChunkSizes == {0, 1, 2}
PipelineThresholds == {90}

IdleFn == fn = "init" /\ args = <<>> /\ ret = None
IdleDedupe ==
    /\ chunks = <<>> /\ chunkNo = 0 /\ result = <<>> /\ origin = <<>>
    /\ dpc = "idle" /\ out_df = <<>> /\ written = <<>>

\* the pure functions
InitFn == IdleFn /\ jobs = <<>> /\ thresh = 90 /\ workers = 1 /\ IdleDedupe
NextFn == CallNormalizeId \/ CallMergeRecords \/ CallAreSimilar \/ CallBlockingKey
SpecFn == InitFn /\ [][NextFn]_vars

\* one call of process_block
InitBlock ==
    /\ IdleFn /\ IdleDedupe
    /\ workers = 1
    /\ thresh \in BlockThresholds
    /\ \E b \in SeqsUpTo(ClusterRecs, MaxBlock) : jobs = <<NewJob(b)>>
NextBlock ==
    \/ \E j \in DOMAIN jobs : StartJob(j)
    \/ \E j \in DOMAIN jobs : PopSeed(j)
    \/ \E j \in DOMAIN jobs : ScanItem(j)
    \/ \E j \in DOMAIN jobs : CloseCluster(j)
    \/ \E j \in DOMAIN jobs : ReturnBlock(j)
SpecBlock == InitBlock /\ [][NextBlock]_vars

\* one run of dedupe
Init ==
    /\ IdleFn
    /\ jobs = <<>>
    /\ thresh \in PipelineThresholds
    /\ workers \in 1..MaxWorkers
    /\ \E rows \in SeqsUpTo(Rows, MaxRows), n \in ChunkSizes : chunks = Chunked(rows, n)
    /\ chunkNo = 1
    /\ result = <<>> /\ origin = <<>>
    /\ dpc = "loop"
    /\ out_df = <<>> /\ written = <<>>
Next ==
    \/ ProcessChunk
    \/ \E j \in DOMAIN jobs : StartJob(j)
    \/ \E j \in DOMAIN jobs : PopSeed(j)
    \/ \E j \in DOMAIN jobs : ScanItem(j)
    \/ \E j \in DOMAIN jobs : CloseCluster(j)
    \/ \E j \in DOMAIN jobs : ReturnBlock(j)
    \/ Collect
    \/ Serialize
    \/ WriteOut
Spec == Init /\ [][Next]_vars

----------------------------------------------------------------------------
(* Properties *)

BagOf(s) == [x \in Range(s) |-> Cardinality({i \in DOMAIN s : s[i] = x})]

AfterChunks == dpc \in {"write", "done", "KeyError"}

InputRows == UNION {{<<c, i>> : i \in DOMAIN chunks[c]} : c \in DOMAIN chunks}
IdOfRow(p) == normalize_id(chunks[p[1]][p[2]]["product_identifier"])

\* C1: after the chunk loop, any two input records whose normalized
\* identifiers are equal and non-null have been merged into one and the same
\* entry of result, however the input was cut into chunks.
C1_ExactIdentifierMerged ==
    AfterChunks =>
        \A p \in InputRows, q \in InputRows :
            (~IsNa(IdOfRow(p)) /\ IdOfRow(p) = IdOfRow(q))
                => \E k \in DOMAIN origin : {p, q} \subseteq origin[k].rows

\* the values of field k that the given records hold and that are not null
ValuesOf(rs, k) ==
    LET Holds(r) == k \in DOMAIN r /\ r[k].k \notin {"none", "nan"}
        held == SelectSeq(rs, Holds)
    IN [i \in DOMAIN held |-> held[i][k]]

MaxOf(S) == CHOOSE m \in S : \A x \in S : x <= m

\* C2: a non-list field whose non-null values are all numbers comes out of
\* merge_records as the greatest of them, whatever the order of the records.
C2_NumericMax ==
    (fn = "merge_records" /\ ret # TypeError) =>
        \A k \in UNION {DOMAIN args[1][i] : i \in DOMAIN args[1]} :
            LET vals == ValuesOf(args[1], k)
            IN (vals # <<>> /\ \A i \in DOMAIN vals : vals[i].k = "num")
                   => /\ k \in DOMAIN ret
                      /\ ret[k] = Num(MaxOf({vals[i].n : i \in DOMAIN vals}))

\* C3: normalize_id gives the element of a one-element list or array, the
\* tuple of the elements of a longer one, null for null and not-a-number, and
\* any other value unchanged.
C3_NormalizeIdTable ==
    fn = "normalize_id" =>
        LET v == args[1]
        IN IF v.k \in {"list", "ndarray"}
           THEN /\ Len(v.e) = 1 => ret = v.e[1]
                /\ Len(v.e) > 1 => ret = Tuple(v.e)
           ELSE IF v.k \in {"none", "nan"} THEN ret = None
           ELSE ret = v

\* the elements the records contribute to field k, in record order, a scalar
\* counting as a one-element sequence
RECURSIVE Flatten(_)
Flatten(vs) ==
    IF vs = <<>> THEN <<>>
    ELSE (IF Head(vs).k \in {"list", "tuple", "ndarray"} THEN Head(vs).e ELSE <<Head(vs)>>)
         \o Flatten(Tail(vs))
Contributed(rs, k) == Flatten(ValuesOf(rs, k))

SequenceFields(rs) ==
    {k \in UNION {DOMAIN rs[i] : i \in DOMAIN rs} :
        \E i \in DOMAIN rs : k \in DOMAIN rs[i] /\ rs[i][k].k \in {"list", "tuple", "ndarray"}}

FirstAt(xs, P(_)) == CHOOSE i \in DOMAIN xs : P(xs[i]) /\ \A j \in 1..(i - 1) : ~P(xs[j])

Present(v) == v.k \notin {"none", "nan"} /\ v # Str(<<>>)

\* C5: when the identifier shortcut does not apply, are_similar answers by
\* the first name field present on both sides, a null or not-a-number value
\* counting as absent, and answers false when there is none.
C5_FirstCommonNameField ==
    fn = "are_similar" =>
        LET a == args[1]
            b == args[2]
            t == args[3]
            id1 == Get(a, "product_identifier")
            id2 == Get(b, "product_identifier")
            common == {i \in DOMAIN NAME_FIELDS :
                          Present(Get(a, NAME_FIELDS[i])) /\ Present(Get(b, NAME_FIELDS[i]))}
            first == NAME_FIELDS[CHOOSE i \in common : \A j \in common : i <= j]
        IN ~(Truthy(id1) /\ Truthy(id2) /\ id1 = id2)
               => ret = Bool(IF common = {} THEN FALSE
                             ELSE RatioGE(token_set_ratio(clean_text(a[first]),
                                                          clean_text(b[first])), t))

\* the title or name of a record: product_title, or product_name when
\* product_title is missing, null, not-a-number or empty
TitleOrName(r) ==
    IF Present(Get(r, "product_title")) THEN r["product_title"] ELSE Get(r, "product_name")

\* C6: two records get the same blocking key exactly when their cleaned
\* brands are equal and the first 10 characters of their cleaned title or
\* name are equal.
C6_BlockingKeyIff ==
    fn = "blocking_key" =>
        LET a == args[1]
            b == args[2]
        IN (ret.e[1] = ret.e[2]) <=>
               /\ clean_text(Get(a, "brand")) = clean_text(Get(b, "brand"))
               /\ Prefix(clean_text(TitleOrName(a)), 10)
                      = Prefix(clean_text(TitleOrName(b)), 10)

\* C7: whatever the worker count and the order in which the jobs of the pool
\* run and finish, result holds the same records, as a multiset, as a run
\* that processes the blocks one after the other.
C7_ScheduleIndependent ==
    AfterChunks => BagOf(result) = BagOf(SequentialResult(chunks, thresh))

\* the end of the chunk loop of a run with several workers over a chunk of
\* several blocks, one of them holding several records
C7_Witness ==
    /\ AfterChunks
    /\ workers >= 2
    /\ \E c \in DOMAIN chunks :
           LET bs == Buckets(Normalized(chunks[c]))
           IN Len(bs) >= 2 /\ \E b \in DOMAIN bs : Len(bs[b]) >= 2

\* C8: what the writer receives carries, for every identifier group, the
\* group's identifier: a scalar unchanged, a tuple as the JSON array of its
\* elements in their order and multiplicity; a record without identifier has
\* a null identifier.
C8_SerializedIdentifier ==
    dpc = "done" =>
        \A k \in DOMAIN written :
            LET id == origin[k].id
                got == written[k]["product_identifier"]
            IN IF origin[k].rows # {}
               THEN got = (IF id.k = "tuple" THEN json_dumps(id) ELSE id)
               ELSE IsNa(got)

\* the process_block call of SpecBlock has returned
BlockDone == jobs[1].pc = "done"

BlockPartition ==
    LET cs == jobs[1].clusters
    IN /\ BagOf(SeqConcat(cs)) = BagOf(jobs[1].block)
       /\ \A c \in DOMAIN cs : cs[c] # <<>>
       /\ \A c \in DOMAIN cs : \A i \in 2..Len(cs[c]) : are_similar(cs[c][1], cs[c][i], thresh)
       /\ \A c \in DOMAIN cs, d \in DOMAIN cs :
              c < d => \A i \in DOMAIN cs[d] : ~are_similar(cs[c][1], cs[d][i], thresh)
       /\ Len(jobs[1].out) = Len(cs)
       /\ \A c \in DOMAIN cs : jobs[1].out[c] = merge_records(cs[c])

\* some step of the call can be taken: the conditions of the while and for
\* statements leave no position without a successor
CanStep ==
    LET J == jobs[1]
    IN \/ J.pc = "pending" /\ Cardinality(Running) < workers
       \/ J.pc = "while" /\ (J.rem # <<>> \/ J.rem = <<>>)
       \/ J.pc = "for" /\ (J.idx <= Len(J.rem) \/ J.idx > Len(J.rem))

\* a bound on the steps the call has left: every record still to be placed
\* costs at most one pass, and the pass under way what is left of it
StepsLeft(J) ==
    LET w == Len(J.block) + 2
    IN CASE J.pc = "pending" -> Len(J.block) * w + 2
         [] J.pc = "while" -> Len(J.rem) * w + 1
         [] J.pc = "for" -> (Len(J.new_rem) + Len(J.rem) - J.idx + 1) * w
                            + (Len(J.rem) - J.idx + 1) + 2
         [] J.pc = "done" -> 0

C10_SerializationNeverFails == dpc # "KeyError"

====
